---- MODULE Spec2Model ----
(***************************************************************************)
(* A model of air_crash_simulations: tools/aircraft.py (Aircraft),         *)
(* tools/airport.py (Airport) and main.py (the simulation runner).         *)
(*                                                                         *)
(* Conventions                                                             *)
(*   - Python's None is the empty tuple <<>>, a present optional value v   *)
(*     is <<v>> (None / Some).                                             *)
(*   - A Vector2 is a pair <<x, y>>.  Aircraft positions are held in       *)
(*     tenths of a pixel, so that speed * 0.1 is an integer.               *)
(*   - Angles are whole degrees; headings used by move are multiples of    *)
(*     90, where sin and cos are -1, 0 or 1.                               *)
(*   - lastOp, applied and fired are history variables: they record which  *)
(*     method ran last (with its arguments) and which commands             *)
(*     process_commands has applied.                                       *)
(***************************************************************************)
EXTENDS Integers, Sequences, FiniteSets, TLC

VARIABLES
    \* ---- Aircraft (tools/aircraft.py) ----
    position,       \* self.position, <<x, y>> in tenths of a pixel
    heading,        \* self.heading
    speed,          \* self.speed
    altitude,       \* self.altitude
    status,         \* self.status
    commands,       \* self.commands
    flight_data,    \* self.flight_data
    ticks,          \* pygame.time.get_ticks() / 1000
    applied,        \* history: applied[i] = how often commands[i] was applied
    fired,          \* history: indices applied by the last process_commands
    \* ---- Airport (tools/airport.py) ----
    name,           \* self.name
    code,           \* self.code
    location,       \* self.location
    runways,        \* self.runways
    taxiways,       \* self.taxiways
    gates,          \* self.gates
    buildings,      \* self.buildings
    weather,        \* self.weather
    disk,           \* the file save_to_file writes and load_from_file reads
    ret,            \* what the last load_from_file / save_to_file returned
    active_runways, \* what the last get_active_runways returned
    \* ---- the runner (main.py) ----
    pc,             \* where the runner process is
    available_simulations,  \* what list_available_simulations returned
    unimportable,   \* the simulations whose module import raises ImportError
    entryless,      \* the simulations whose module has no run_simulation
    args,           \* the parsed command line: --list, --simulation
    choice,         \* what the user types at the menu
    selected_simulation,
    exit_code,      \* the exit status of the process, None while it runs
    printed,        \* the messages printed so far
    \* ---- history ----
    lastOp          \* <<method name, arguments...>> of the last Aircraft or
                    \* Airport call

acVars == <<position, heading, speed, altitude, status, commands,
            flight_data, ticks, applied, fired>>

apVars == <<name, code, location, runways, taxiways, gates, buildings,
            weather, disk, ret, active_runways>>

rnVars == <<pc, available_simulations, unimportable, entryless, args, choice,
            selected_simulation, exit_code, printed>>

vars == <<acVars, apVars, rnVars, lastOp>>

----------------------------------------------------------------------------
(* Bounds of the model *)

MaxCmds == 2        \* longest command queue explored
MaxTicks == 2       \* the clock stops advancing here
MaxPos == 1         \* |x|, |y| of an explored position, in tenths of a pixel
MaxRunways == 3     \* most runways added with add_runway
MaxItems == 1       \* most taxiways, gates, buildings added with add_*

----------------------------------------------------------------------------
(* Python values *)

None == <<>>
Some(v) == <<v>>

Max2(a, b) == IF a >= b THEN a ELSE b
Min2(a, b) == IF a <= b THEN a ELSE b
Abs(a) == IF a >= 0 THEN a ELSE -a

----------------------------------------------------------------------------
(* Aircraft *)

valid_statuses == {"parked", "taxiing", "takeoff", "landing", "airborne", "crashed"}

\* math.sin(math.radians(h)) and math.cos(math.radians(h)), h a multiple of 90
SinDeg(h) == CASE h % 360 = 0 -> 0 [] h % 360 = 90 -> 1
               [] h % 360 = 180 -> 0 [] h % 360 = 270 -> -1
CosDeg(h) == CASE h % 360 = 0 -> 1 [] h % 360 = 90 -> 0
               [] h % 360 = 180 -> -1 [] h % 360 = 270 -> 0

\* move: the position after delta_time seconds (tenths of a pixel)
MovedAlways(pos, h, s, st, dt) ==
    <<pos[1] + SinDeg(h) * s * dt, pos[2] - CosDeg(h) * s * dt>>

Moved(pos, h, s, st, dt) ==
    IF st = "crashed" THEN pos
    ELSE <<pos[1] + SinDeg(h) * s * dt, pos[2] - CosDeg(h) * s * dt>>

\* move: the flight_data after the call, newPos being the new position
Sampled(fd, now, newPos, h, s, st) ==
    IF st = "crashed" THEN fd
    ELSE IF Len(fd) = 0 \/ fd[Len(fd)].time + 1 < now
         THEN Append(fd, [time |-> now, pos |-> newPos, heading |-> h,
                          speed |-> s, status |-> st])
         ELSE fd

InRange(pos) == Abs(pos[1]) <= MaxPos /\ Abs(pos[2]) <= MaxPos

move(delta_time) ==
    /\ InRange(Moved(position, heading, speed, status, delta_time))
    /\ position' = Moved(position, heading, speed, status, delta_time)
    /\ flight_data' = Sampled(flight_data, ticks, position', heading, speed, status)
    /\ lastOp' = <<"move">>
    /\ fired' = <<>>
    /\ UNCHANGED <<heading, speed, altitude, status, commands, ticks, applied>>
    /\ UNCHANGED <<apVars, rnVars>>

\* A heading argument is a pair <<degrees, eps>>: the whole number of degrees
\* when eps = 0, and for <<0, -1>> a negative float so small that adding 360
\* to it rounds to 360.0 (-1e-20, say).
Whole(degrees) == <<degrees, 0>>
NegTiny == <<0, -1>>

\* set_course / change_speed / change_status as functions of the old value

\* new_heading % 360 as Python computes it: the remainder with the sign of
\* new_heading (fmod), then + 360 when that remainder is negative; floor
\* division gives an integer the same result.  For the tiny negative float
\* the addition is rounded: -1e-20 + 360 is 360.0.
Fmod(new_heading) ==
    IF new_heading[2] # 0 THEN new_heading
    ELSE Whole(IF new_heading[1] >= 0 THEN new_heading[1] % 360
               ELSE -((-new_heading[1]) % 360))

Course(new_heading) ==
    LET mod == Fmod(new_heading)
    IN IF mod[2] < 0 THEN 360
       ELSE IF mod[1] < 0 THEN mod[1] + 360
       ELSE mod[1]

Unclamped(new_speed) == new_speed

Clamped(new_speed) == Max2(0, new_speed)

StatusAny(old, new_status) == new_status

Status(old, new_status) ==
    IF new_status \in valid_statuses THEN new_status ELSE old

set_course(new_heading) ==
    /\ heading' = Course(new_heading)
    /\ lastOp' = <<"set_course", new_heading>>
    /\ fired' = <<>>
    /\ UNCHANGED <<position, speed, altitude, status, commands, flight_data,
                   ticks, applied>>
    /\ UNCHANGED <<apVars, rnVars>>

change_speed(new_speed) ==
    /\ speed' = Clamped(new_speed)
    /\ lastOp' = <<"change_speed", new_speed>>
    /\ fired' = <<>>
    /\ UNCHANGED <<position, heading, altitude, status, commands, flight_data,
                   ticks, applied>>
    /\ UNCHANGED <<apVars, rnVars>>

change_status(new_status) ==
    /\ status' = Status(status, new_status)
    /\ lastOp' = <<"change_status", new_status>>
    /\ fired' = <<>>
    /\ UNCHANGED <<position, heading, speed, altitude, commands, flight_data,
                   ticks, applied>>
    /\ UNCHANGED <<apVars, rnVars>>

add_command(command_type, value, execution_time) ==
    /\ Len(commands) < MaxCmds
    /\ commands' = Append(commands, [type |-> command_type, value |-> value,
                                     execution_time |-> execution_time,
                                     completed |-> FALSE])
    /\ applied' = Append(applied, 0)
    /\ lastOp' = <<"add_command">>
    /\ fired' = <<>>
    /\ UNCHANGED <<position, heading, speed, altitude, status, flight_data, ticks>>
    /\ UNCHANGED <<apVars, rnVars>>

\* process_commands, line 73: a completed command is skipped
SkipNever(cmd) == FALSE

Skip(cmd) == cmd.completed

\* process_commands, line 77: the command is to be executed now
DueStrictly(cmd, current_time) ==
    cmd.execution_time = None \/ current_time > cmd.execution_time[1]

Due(cmd, current_time) ==
    cmd.execution_time = None \/ current_time >= cmd.execution_time[1]

\* process_commands, lines 78-87: command i of aircraft record a is applied
Apply(a, i) ==
    LET cmd == a.commands[i]
        b == CASE cmd.type = "heading" -> [a EXCEPT !.heading = Course(cmd.value)]
               [] cmd.type = "speed" -> [a EXCEPT !.speed = Clamped(cmd.value)]
               [] cmd.type = "status" -> [a EXCEPT !.status = Status(a.status, cmd.value)]
               [] cmd.type = "altitude" -> [a EXCEPT !.altitude = cmd.value]
               [] OTHER -> a
    IN [b EXCEPT !.commands[i].completed = TRUE,
                 !.applied[i] = @ + 1,
                 !.fired = Append(@, i)]

\* process_commands, lines 72-87: one pass over the queue from index i on
RECURSIVE Pass(_, _, _)
Pass(a, i, current_time) ==
    IF i > Len(a.commands) THEN a
    ELSE IF Skip(a.commands[i]) THEN Pass(a, i + 1, current_time)
    ELSE IF Due(a.commands[i], current_time)
         THEN Pass(Apply(a, i), i + 1, current_time)
         ELSE Pass(a, i + 1, current_time)

process_commands(current_time) ==
    LET a == Pass([heading |-> heading, speed |-> speed, status |-> status,
                   altitude |-> altitude, commands |-> commands,
                   applied |-> applied, fired |-> <<>>], 1, current_time)
    IN /\ heading' = a.heading
       /\ speed' = a.speed
       /\ status' = a.status
       /\ altitude' = a.altitude
       /\ commands' = a.commands
       /\ applied' = a.applied
       /\ fired' = a.fired
       /\ lastOp' = <<"process_commands", current_time>>
       /\ UNCHANGED <<position, flight_data, ticks>>
       /\ UNCHANGED <<apVars, rnVars>>

\* the simulation clock (pygame.time.get_ticks) advances between calls
Tick ==
    /\ ticks < MaxTicks
    /\ ticks' = ticks + 1
    /\ lastOp' = <<"tick">>
    /\ fired' = <<>>
    /\ UNCHANGED <<position, heading, speed, altitude, status, commands,
                   flight_data, applied>>
    /\ UNCHANGED <<apVars, rnVars>>

\* Aircraft.__init__ with the default position, heading and speed
AircraftInit ==
    /\ position = <<0, 0>>
    /\ heading = 0
    /\ speed = 0
    /\ altitude = 0
    /\ status = "parked"
    /\ commands = <<>>
    /\ flight_data = <<>>
    /\ ticks = 0
    /\ applied = <<>>
    /\ fired = <<>>

----------------------------------------------------------------------------
(* Airport *)

FogOne == 10            \* fog_density 1.0, fog densities being held in tenths
DefaultVisibility == 10000
DefaultRunwayWidth == 45
DefaultTaxiwayWidth == 15
DefaultBuildingHeight == 10
DefaultGateSize == 1

\* math.degrees(math.atan2(x, y)) on the eight compass directions. y may be
\* the float -0.0, which atan2 treats as a negative number: atan2(0, -0.0)
\* is pi, where atan2(0, 0) is 0.
Atan2Deg(x, y, y_negative_zero) ==
    CASE x = 0 /\ y = 0 -> (IF y_negative_zero THEN 180 ELSE 0)
      [] x = 0 /\ y > 0 -> 0
      [] x = 0 /\ y < 0 -> 180
      [] x > 0 /\ y = 0 -> 90
      [] x < 0 /\ y = 0 -> -90
      [] x > 0 /\ y = x -> 45
      [] x > 0 /\ y = -x -> 135
      [] x < 0 /\ y = -x -> -45
      [] x < 0 /\ y = x -> -135

\* _calculate_heading. float_coords: the y coordinates it is given are
\* Python floats (always so for Vector2 arguments), so that a zero delta_y
\* negates to -0.0; with int coordinates -delta_y is the int 0.
CalcHeading(start_pos, end_pos, float_coords) ==
    LET delta_x == end_pos[1] - start_pos[1]
        delta_y == end_pos[2] - start_pos[2]
    IN Atan2Deg(delta_x, -delta_y, float_coords /\ delta_y = 0) % 360

\* the integer square root, rounded down
RECURSIVE IsqrtFrom(_, _)
IsqrtFrom(n, r) == IF (r + 1) * (r + 1) > n THEN r ELSE IsqrtFrom(n, r + 1)

\* Vector2.distance_to, in whole units
Distance(a, b) ==
    IsqrtFrom((b[1] - a[1]) * (b[1] - a[1]) + (b[2] - a[2]) * (b[2] - a[2]), 0)

\* add_runway: the runway record built from the arguments
Runway(rname, start_pos, end_pos, width, active, float_coords) ==
    [name |-> rname, start_pos |-> start_pos, end_pos |-> end_pos,
     width |-> width, active |-> active,
     length |-> Distance(start_pos, end_pos),
     heading |-> CalcHeading(start_pos, end_pos, float_coords)]

Taxiway(tname, points, width) ==
    [name |-> tname, points |-> points, width |-> width]

Gate(gname, gposition, gheading, size) ==
    [name |-> gname, position |-> gposition, heading |-> gheading,
     size |-> size, occupied |-> FALSE]

Building(bname, polygon, height, type) ==
    [name |-> bname, polygon |-> polygon, height |-> height, type |-> type]

\* The airport as one record, for the methods that are functions of it
Airport ==
    [name |-> name, code |-> code, location |-> location, runways |-> runways,
     taxiways |-> taxiways, gates |-> gates, buildings |-> buildings,
     weather |-> weather]

\* set_weather: the weather after a call with arguments a (None = not given)
SetWeatherResetting(w, a) ==
    [visibility |-> IF a.visibility # None THEN a.visibility[1] ELSE DefaultVisibility,
     fog_density |-> IF a.fog_density # None
                     THEN Max2(0, Min2(FogOne, a.fog_density[1])) ELSE w.fog_density,
     wind_direction |-> IF a.wind_direction # None
                        THEN a.wind_direction[1] % 360 ELSE w.wind_direction,
     wind_speed |-> IF a.wind_speed # None
                    THEN Max2(0, a.wind_speed[1]) ELSE w.wind_speed,
     precipitation |-> a.precipitation]

SetWeatherUnclamped(w, a) ==
    [visibility |-> IF a.visibility # None THEN a.visibility[1] ELSE w.visibility,
     fog_density |-> IF a.fog_density # None
                     THEN a.fog_density[1] ELSE w.fog_density,
     wind_direction |-> IF a.wind_direction # None
                        THEN a.wind_direction[1] % 360 ELSE w.wind_direction,
     wind_speed |-> IF a.wind_speed # None
                    THEN Max2(0, a.wind_speed[1]) ELSE w.wind_speed,
     precipitation |-> IF a.precipitation # None
                       THEN a.precipitation ELSE w.precipitation]

SetWeather(w, a) ==
    [visibility |-> IF a.visibility # None THEN a.visibility[1] ELSE w.visibility,
     fog_density |-> IF a.fog_density # None
                     THEN Max2(0, Min2(FogOne, a.fog_density[1])) ELSE w.fog_density,
     wind_direction |-> IF a.wind_direction # None
                        THEN a.wind_direction[1] % 360 ELSE w.wind_direction,
     wind_speed |-> IF a.wind_speed # None
                    THEN Max2(0, a.wind_speed[1]) ELSE w.wind_speed,
     precipitation |-> IF a.precipitation # None
                       THEN a.precipitation ELSE w.precipitation]

\* get_active_runways, lines 123-144: the record for one active runway
RunwayChoiceNormal(runway, wind_direction) ==
    LET diff1 == Abs(((runway.heading - wind_direction + 180) % 360) - 180)
    IN [runway |-> runway, direction |-> "normal",
        heading |-> runway.heading, difference |-> diff1]

RunwayChoice(runway, wind_direction) ==
    LET rheading == runway.heading
        reverse_heading == (rheading + 180) % 360
        diff1 == Abs(((rheading - wind_direction + 180) % 360) - 180)
        diff2 == Abs(((reverse_heading - wind_direction + 180) % 360) - 180)
    IN IF diff1 <= diff2
       THEN [runway |-> runway, direction |-> "normal",
             heading |-> rheading, difference |-> diff1]
       ELSE [runway |-> runway, direction |-> "reverse",
             heading |-> reverse_heading, difference |-> diff2]

\* get_active_runways, lines 119-144: the records in runway order
RECURSIVE Choices(_, _, _)
Choices(rws, i, wind_direction) ==
    IF i > Len(rws) THEN <<>>
    ELSE IF rws[i].active
         THEN <<RunwayChoice(rws[i], wind_direction)>> \o Choices(rws, i + 1, wind_direction)
         ELSE Choices(rws, i + 1, wind_direction)

\* list.sort(key=difference), line 147: a stable sort. InsertSorted puts x
\* after every element whose key is <= x's.
RECURSIVE InsertBeforeEqual(_, _)
InsertBeforeEqual(sorted, x) ==
    IF sorted = <<>> THEN <<x>>
    ELSE IF x.difference <= Head(sorted).difference THEN <<x>> \o sorted
    ELSE <<Head(sorted)>> \o InsertBeforeEqual(Tail(sorted), x)

RECURSIVE InsertSorted(_, _)
InsertSorted(sorted, x) ==
    IF sorted = <<>> THEN <<x>>
    ELSE IF x.difference < Head(sorted).difference THEN <<x>> \o sorted
    ELSE <<Head(sorted)>> \o InsertSorted(Tail(sorted), x)

RECURSIVE SortByDifference(_)
SortByDifference(records) ==
    IF records = <<>> THEN <<>>
    ELSE InsertSorted(SortByDifference(SubSeq(records, 1, Len(records) - 1)),
                      records[Len(records)])

\* get_active_runways, lines 116-117: the wind used
WindUsed(wind_direction, w) ==
    IF wind_direction = None THEN w.wind_direction ELSE wind_direction[1]

GetActiveRunways(rws, wind_direction, w) ==
    SortByDifference(Choices(rws, 1, WindUsed(wind_direction, w)))

----------------------------------------------------------------------------
(* Airport: the methods as actions *)

add_runway(rname, start_pos, end_pos, width, active, float_coords) ==
    /\ Len(runways) < MaxRunways
    /\ runways' = Append(runways, Runway(rname, start_pos, end_pos, width,
                                         active, float_coords))
    /\ lastOp' = <<"add_runway">>
    /\ UNCHANGED <<name, code, location, taxiways, gates, buildings, weather,
                   disk, ret, active_runways>>
    /\ UNCHANGED <<acVars, rnVars>>

add_taxiway(tname, points, width) ==
    /\ Len(taxiways) < MaxItems
    /\ taxiways' = Append(taxiways, Taxiway(tname, points, width))
    /\ lastOp' = <<"add_taxiway">>
    /\ UNCHANGED <<name, code, location, runways, gates, buildings, weather,
                   disk, ret, active_runways>>
    /\ UNCHANGED <<acVars, rnVars>>

add_gate(gname, gposition, gheading, size) ==
    /\ Len(gates) < MaxItems
    /\ gates' = Append(gates, Gate(gname, gposition, gheading, size))
    /\ lastOp' = <<"add_gate">>
    /\ UNCHANGED <<name, code, location, runways, taxiways, buildings, weather,
                   disk, ret, active_runways>>
    /\ UNCHANGED <<acVars, rnVars>>

add_building(bname, polygon, height, type) ==
    /\ Len(buildings) < MaxItems
    /\ buildings' = Append(buildings, Building(bname, polygon, height, type))
    /\ lastOp' = <<"add_building">>
    /\ UNCHANGED <<name, code, location, runways, taxiways, gates, weather,
                   disk, ret, active_runways>>
    /\ UNCHANGED <<acVars, rnVars>>

set_weather(a) ==
    /\ weather' = SetWeather(weather, a)
    /\ lastOp' = <<"set_weather", a>>
    /\ UNCHANGED <<name, code, location, runways, taxiways, gates, buildings,
                   disk, ret, active_runways>>
    /\ UNCHANGED <<acVars, rnVars>>

get_active_runways(wind_direction) ==
    /\ active_runways' = GetActiveRunways(runways, wind_direction, weather)
    /\ lastOp' = <<"get_active_runways", wind_direction>>
    /\ UNCHANGED <<name, code, location, runways, taxiways, gates, buildings,
                   weather, disk, ret>>
    /\ UNCHANGED <<acVars, rnVars>>

----------------------------------------------------------------------------
(* Airport: save_to_file and load_from_file                                *)
(*                                                                         *)
(* A JSON object is a record of optional values: a key that is absent is   *)
(* None. A JSON number is the number, a JSON array a tuple (json turns the *)
(* Python tuples that save_to_file writes into lists).                     *)

NoFile == [kind |-> "none", data |-> None, origin |-> None]
Garbage == [kind |-> "garbage", data |-> None, origin |-> None]

Get(opt, default) == IF opt = None THEN default ELSE opt[1]

GateKeys == {"name", "position", "heading", "size", "occupied"}

\* save_to_file, lines 215-261: building the snapshot, which is outside the
\* try block, raises on a gate record that lacks a key or whose position is
\* no Vector2 (a record in a list the caller gave the constructor)
BuildRaises(ap) ==
    \E i \in DOMAIN ap.gates : ~(GateKeys \subseteq DOMAIN ap.gates[i])

\* save_to_file, lines 215-261: the snapshot
SaveData(ap) ==
    [name |-> Some(ap.name),
     code |-> Some(ap.code),
     location |-> Some(<<ap.location[1], ap.location[2]>>),
     runways |-> Some([i \in DOMAIN ap.runways |->
                    [name |-> Some(ap.runways[i].name),
                     start_pos |-> Some(ap.runways[i].start_pos),
                     end_pos |-> Some(ap.runways[i].end_pos),
                     width |-> Some(ap.runways[i].width),
                     active |-> Some(ap.runways[i].active)]]),
     taxiways |-> Some([i \in DOMAIN ap.taxiways |->
                    [name |-> Some(ap.taxiways[i].name),
                     points |-> Some(ap.taxiways[i].points),
                     width |-> Some(ap.taxiways[i].width)]]),
     gates |-> Some([i \in DOMAIN ap.gates |->
                    [name |-> Some(ap.gates[i].name),
                     position |-> Some(ap.gates[i].position),
                     heading |-> Some(ap.gates[i].heading),
                     size |-> Some(ap.gates[i].size),
                     occupied |-> Some(ap.gates[i].occupied)]]),
     buildings |-> Some([i \in DOMAIN ap.buildings |->
                    [name |-> Some(ap.buildings[i].name),
                     polygon |-> Some(ap.buildings[i].polygon),
                     height |-> Some(ap.buildings[i].height),
                     type |-> Some(ap.buildings[i].type)]]),
     weather |-> Some([visibility |-> Some(ap.weather.visibility),
                       fog_density |-> Some(ap.weather.fog_density),
                       wind_direction |-> Some(ap.weather.wind_direction),
                       wind_speed |-> Some(ap.weather.wind_speed),
                       precipitation |-> ap.weather.precipitation,
                       unknown_key |-> FALSE])]

\* save_to_file. io is what the file system does: "ok", "open_fails" (open
\* raises, the file is untouched) or "write_fails" (json.dump raises after
\* open has truncated the file).
save_to_file(io) ==
    /\ IF BuildRaises(Airport)
       THEN ret' = "raised" /\ disk' = disk
       ELSE CASE io = "open_fails" -> ret' = "False" /\ disk' = disk
              [] io = "write_fails" -> ret' = "False" /\ disk' = Garbage
              [] io = "ok" -> /\ ret' = "True"
                              /\ disk' = [kind |-> "json",
                                          data |-> Some(SaveData(Airport)),
                                          origin |-> Some(Airport)]
    /\ lastOp' = <<"save_to_file", io>>
    /\ UNCHANGED <<name, code, location, runways, taxiways, gates, buildings,
                   weather, active_runways>>
    /\ UNCHANGED <<acVars, rnVars>>

\* load_from_file, lines 163-172: the runway entries from index i on; ok is
\* FALSE when an entry raised KeyError
RECURSIVE LoadRunways(_, _, _)
LoadRunways(ap, entries, i) ==
    IF i > Len(entries) THEN [ap |-> ap, ok |-> TRUE]
    ELSE LET e == entries[i] IN
         IF e.start_pos = None \/ e.end_pos = None \/ e.name = None
         THEN [ap |-> ap, ok |-> FALSE]
         ELSE LoadRunways(
                [ap EXCEPT !.runways =
                    Append(@, Runway(e.name[1], e.start_pos[1], e.end_pos[1],
                                     Get(e.width, DefaultRunwayWidth),
                                     Get(e.active, TRUE), TRUE))],
                entries, i + 1)

\* load_from_file, lines 176-182
RECURSIVE LoadTaxiways(_, _, _)
LoadTaxiways(ap, entries, i) ==
    IF i > Len(entries) THEN [ap |-> ap, ok |-> TRUE]
    ELSE LET e == entries[i] IN
         IF e.points = None \/ e.name = None
         THEN [ap |-> ap, ok |-> FALSE]
         ELSE LoadTaxiways(
                [ap EXCEPT !.taxiways =
                    Append(@, Taxiway(e.name[1], e.points[1],
                                      Get(e.width, DefaultTaxiwayWidth)))],
                entries, i + 1)

\* load_from_file, lines 186-192
RECURSIVE LoadGates(_, _, _)
LoadGates(ap, entries, i) ==
    IF i > Len(entries) THEN [ap |-> ap, ok |-> TRUE]
    ELSE LET e == entries[i] IN
         IF e.name = None \/ e.position = None
         THEN [ap |-> ap, ok |-> FALSE]
         ELSE LoadGates(
                [ap EXCEPT !.gates =
                    Append(@, Gate(e.name[1], e.position[1], Get(e.heading, 0),
                                   Get(e.size, DefaultGateSize)))],
                entries, i + 1)

\* load_from_file, lines 196-202
RECURSIVE LoadBuildings(_, _, _)
LoadBuildings(ap, entries, i) ==
    IF i > Len(entries) THEN [ap |-> ap, ok |-> TRUE]
    ELSE LET e == entries[i] IN
         IF e.name = None \/ e.polygon = None
         THEN [ap |-> ap, ok |-> FALSE]
         ELSE LoadBuildings(
                [ap EXCEPT !.buildings =
                    Append(@, Building(e.name[1], e.polygon[1],
                                       Get(e.height, DefaultBuildingHeight),
                                       Get(e.type, "terminal")))],
                entries, i + 1)

\* load_from_file, lines 205-206: set_weather(**data["weather"]) raises
\* TypeError on a key that is no parameter of set_weather
LoadWeather(ap, data) ==
    IF data.weather = None THEN [ap |-> ap, ok |-> TRUE]
    ELSE IF data.weather[1].unknown_key THEN [ap |-> ap, ok |-> FALSE]
    ELSE [ap |-> [ap EXCEPT !.weather = SetWeather(@, data.weather[1])],
          ok |-> TRUE]

\* load_from_file, lines 152-211: the airport after the call and whether it
\* returned True. An exception leaves what was assigned before it.
LoadKeepingGates(ap, file) ==
    IF file.kind # "json" THEN [ap |-> ap, ok |-> FALSE]
    ELSE
    LET data == file.data[1]
        a0 == [ap EXCEPT !.name = Get(data.name, ap.name),
                         !.code = Get(data.code, ap.code),
                         !.location = Get(data.location, <<0, 0>>)]
        r == LoadRunways([a0 EXCEPT !.runways = <<>>], Get(data.runways, <<>>), 1)
        t == LoadTaxiways([r.ap EXCEPT !.taxiways = <<>>], Get(data.taxiways, <<>>), 1)
        g == LoadGates(t.ap, Get(data.gates, <<>>), 1)
        b == LoadBuildings([g.ap EXCEPT !.buildings = <<>>], Get(data.buildings, <<>>), 1)
    IN IF ~r.ok THEN r
       ELSE IF ~t.ok THEN t
       ELSE IF ~g.ok THEN g
       ELSE IF ~b.ok THEN b
       ELSE LoadWeather(b.ap, data)

Load(ap, file) ==
    IF file.kind # "json" THEN [ap |-> ap, ok |-> FALSE]
    ELSE
    LET data == file.data[1]
        a0 == [ap EXCEPT !.name = Get(data.name, ap.name),
                         !.code = Get(data.code, ap.code),
                         !.location = Get(data.location, <<0, 0>>)]
        r == LoadRunways([a0 EXCEPT !.runways = <<>>], Get(data.runways, <<>>), 1)
        t == LoadTaxiways([r.ap EXCEPT !.taxiways = <<>>], Get(data.taxiways, <<>>), 1)
        g == LoadGates([t.ap EXCEPT !.gates = <<>>], Get(data.gates, <<>>), 1)
        b == LoadBuildings([g.ap EXCEPT !.buildings = <<>>], Get(data.buildings, <<>>), 1)
    IN IF ~r.ok THEN r
       ELSE IF ~t.ok THEN t
       ELSE IF ~g.ok THEN g
       ELSE IF ~b.ok THEN b
       ELSE LoadWeather(b.ap, data)

load_from_file ==
    LET l == Load(Airport, disk) IN
    /\ name' = l.ap.name
    /\ code' = l.ap.code
    /\ location' = l.ap.location
    /\ runways' = l.ap.runways
    /\ taxiways' = l.ap.taxiways
    /\ gates' = l.ap.gates
    /\ buildings' = l.ap.buildings
    /\ weather' = l.ap.weather
    /\ ret' = IF l.ok THEN "True" ELSE "False"
    /\ lastOp' = <<"load_from_file">>
    /\ UNCHANGED <<disk, active_runways>>
    /\ UNCHANGED <<acVars, rnVars>>

\* another program writes, replaces or removes the file
external_write(file) ==
    /\ disk' = file
    /\ lastOp' = <<"external_write">>
    /\ UNCHANGED <<name, code, location, runways, taxiways, gates, buildings,
                   weather, ret, active_runways>>
    /\ UNCHANGED <<acVars, rnVars>>

\* Airport.__init__, the caller giving the list of gates
AirportInit(initial_gates) ==
    /\ name = "Los Rodeos Airport"
    /\ code = "GCXO"
    /\ location = <<0, 0>>
    /\ runways = <<>>
    /\ taxiways = <<>>
    /\ gates = initial_gates
    /\ buildings = <<>>
    /\ weather = [visibility |-> DefaultVisibility, fog_density |-> 0,
                  wind_direction |-> 0, wind_speed |-> 0,
                  precipitation |-> None]
    /\ disk = NoFile
    /\ ret = "none"
    /\ active_runways = <<>>

----------------------------------------------------------------------------
(* The runner (main.py) *)

Say(line) == printed' = Append(printed, line)

Exit(n) == exit_code' = Some(n) /\ pc' = "exit"

Listed(seq) == {seq[i] : i \in DOMAIN seq}

\* main, lines 35-45: argparse rejects a --simulation that is no choice
ParseArgs ==
    /\ pc = "main"
    /\ IF args.simulation # None /\ args.simulation[1] \notin Listed(available_simulations)
       THEN Say("usage: invalid choice") /\ Exit(2)
       ELSE pc' = "parsed" /\ UNCHANGED <<printed, exit_code>>
    /\ UNCHANGED <<available_simulations, unimportable, entryless, args, choice,
                   selected_simulation, lastOp>>
    /\ UNCHANGED <<acVars, apVars>>

\* main, lines 47-61 and 74-75
ListOrSelect ==
    /\ pc = "parsed"
    /\ IF args.list
       THEN Say("Dostepne symulacje") /\ Exit(0) /\ UNCHANGED selected_simulation
       ELSE IF args.simulation = None
       THEN IF Len(available_simulations) = 0
            THEN Say("Nie znaleziono zadnych symulacji") /\ Exit(0)
                 /\ UNCHANGED selected_simulation
            ELSE Say("Wybierz symulacje") /\ pc' = "menu"
                 /\ UNCHANGED <<selected_simulation, exit_code>>
       ELSE /\ selected_simulation' = args.simulation
            /\ pc' = "dispatch"
            /\ UNCHANGED <<printed, exit_code>>
    /\ UNCHANGED <<available_simulations, unimportable, entryless, args, choice, lastOp>>
    /\ UNCHANGED <<acVars, apVars>>

\* main, lines 63-73: choice is None when the input is not a number
Menu ==
    /\ pc = "menu"
    /\ IF choice = None
       THEN Say("Wprowadz liczbe") /\ Exit(0) /\ UNCHANGED selected_simulation
       ELSE IF 0 <= choice[1] - 1 /\ choice[1] - 1 < Len(available_simulations)
       THEN /\ selected_simulation' = Some(available_simulations[choice[1]])
            /\ pc' = "dispatch"
            /\ UNCHANGED <<printed, exit_code>>
       ELSE Say("Nieprawidlowy wybor") /\ Exit(0) /\ UNCHANGED selected_simulation
    /\ UNCHANGED <<available_simulations, unimportable, entryless, args, choice, lastOp>>
    /\ UNCHANGED <<acVars, apVars>>

\* main, lines 77-78
Dispatch ==
    /\ pc = "dispatch"
    /\ Say("Uruchamianie symulacji")
    /\ pc' = "import"
    /\ UNCHANGED <<available_simulations, unimportable, entryless, args, choice,
                   selected_simulation, exit_code, lastOp>>
    /\ UNCHANGED <<acVars, apVars>>

\* run_simulation, lines 23 and 30-32
Import ==
    /\ pc = "import"
    /\ IF selected_simulation[1] \in unimportable
       THEN Say("Blad: Nie mozna zaimportowac modulu symulacji") /\ Exit(1)
       ELSE pc' = "imported" /\ UNCHANGED <<printed, exit_code>>
    /\ UNCHANGED <<available_simulations, unimportable, entryless, args, choice,
                   selected_simulation, lastOp>>
    /\ UNCHANGED <<acVars, apVars>>

\* run_simulation, lines 26-29: without run_simulation the error is printed,
\* run_simulation and main return and the process ends with status 0
CheckEntry ==
    /\ pc = "imported"
    /\ IF selected_simulation[1] \in entryless
       THEN Say("Blad: Modul nie zawiera funkcji run_simulation()") /\ Exit(0)
       ELSE pc' = "running" /\ UNCHANGED <<printed, exit_code>>
    /\ UNCHANGED <<available_simulations, unimportable, entryless, args, choice,
                   selected_simulation, lastOp>>
    /\ UNCHANGED <<acVars, apVars>>

\* run_simulation, line 27 and 30-32: the simulation returns, raises
\* ImportError (caught like a failed import) or raises something else
RunEntry(outcome) ==
    /\ pc = "running"
    /\ CASE outcome = "returns" -> Exit(0) /\ UNCHANGED printed
         [] outcome = "ImportError" ->
                Say("Blad: Nie mozna zaimportowac modulu symulacji") /\ Exit(1)
         [] outcome = "Exception" -> Say("Traceback") /\ Exit(1)
    /\ UNCHANGED <<available_simulations, unimportable, entryless, args, choice,
                   selected_simulation, lastOp>>
    /\ UNCHANGED <<acVars, apVars>>

\* the runner is not running
RunnerIdle ==
    /\ pc = "idle"
    /\ available_simulations = <<>>
    /\ unimportable = {}
    /\ entryless = {}
    /\ args = [list |-> FALSE, simulation |-> None]
    /\ choice = None
    /\ selected_simulation = None
    /\ exit_code = None
    /\ printed = <<>>

----------------------------------------------------------------------------
(* Inputs *)

Headings == {Whole(-90), Whole(450)}
TurnHeadings == {Whole(-90), Whole(0), Whole(360), Whole(725), NegTiny}
Speeds == {-5, 1}
ThrottleSpeeds == {-5, 0, 3}
Statuses == {"crashed", "airborne", "bogus"}
QueuedStatuses == {"crashed", "bogus"}
Altitudes == {-100}
ExecTimes == {None, Some(1), Some(2)}
Times == 0 .. 2
DeltaTimes == {1, 2}

\* add_runway arguments: <<name, start_pos, end_pos, width, active, float_coords>>
RunwayInputs ==
    {<<"09", <<0, 0>>, <<4, 0>>, 45, TRUE, FALSE>>,
     <<"27", <<4, 0>>, <<0, 0>>, 45, TRUE, FALSE>>,
     <<"04", <<0, 4>>, <<4, 0>>, 45, TRUE, FALSE>>,
     <<"13", <<0, 0>>, <<4, 4>>, 30, TRUE, TRUE>>,
     <<"36", <<0, 4>>, <<0, 0>>, 45, FALSE, FALSE>>}

\* add_runway arguments of the saved airports: a runway heading east and a
\* closed runway of length zero, given with int coordinates
SavedRunwayInputs ==
    {<<"09/27", <<0, 0>>, <<4, 0>>, 45, TRUE, FALSE>>,
     <<"X", <<1, 1>>, <<1, 1>>, 30, FALSE, FALSE>>}

WindInputs == {90, -290, 460}

NoWeatherArgs ==
    [visibility |-> None, fog_density |-> None, wind_direction |-> None,
     wind_speed |-> None, precipitation |-> None]

WeatherArgs ==
    [visibility : {None, Some(0), Some(500)},
     fog_density : {None, Some(15), Some(-2), Some(0), Some(5), Some(10)},
     wind_direction : {None, Some(-90), Some(450)},
     wind_speed : {None, Some(-3), Some(12)},
     precipitation : {None, Some("rain")}]

\* a gate dict the caller of Airport(gates=[...]) built by hand: a tuple for
\* position, and no heading, size and occupied
PartialGate == [name |-> "G0", position |-> <<3, 3>>]

InitialGates == {<<>>, <<PartialGate>>}

\* files written by something else than save_to_file
ForeignSnapshot ==
    [kind |-> "json", origin |-> None,
     data |-> Some(
       [name |-> Some("Other"), code |-> None, location |-> None,
        runways |-> Some(<<[name |-> Some("18"), start_pos |-> Some(<<0, 0>>),
                            end_pos |-> Some(<<0, 4>>), width |-> None,
                            active |-> None]>>),
        taxiways |-> Some(<<[name |-> Some("T"),
                             points |-> Some(<<<<0, 0>>, <<1, 1>>>>),
                             width |-> None]>>),
        gates |-> Some(<<[name |-> Some("G9"), position |-> Some(<<2, 2>>),
                          heading |-> None, size |-> None,
                          occupied |-> Some(TRUE)]>>),
        buildings |-> Some(<<[name |-> Some("Tower"),
                              polygon |-> Some(<<<<0, 0>>, <<1, 0>>, <<1, 1>>>>),
                              height |-> None, type |-> Some("tower")]>>),
        weather |-> None])]

TruncatedSnapshot ==
    [kind |-> "json", origin |-> None,
     data |-> Some(
       [name |-> Some("Broken"), code |-> Some("BRKN"), location |-> Some(<<7, 7>>),
        runways |-> Some(<<[name |-> Some("18"), start_pos |-> Some(<<0, 0>>),
                            end_pos |-> Some(<<0, 4>>), width |-> Some(60),
                            active |-> Some(TRUE)],
                           [name |-> Some("05"), start_pos |-> Some(<<0, 0>>),
                            end_pos |-> None, width |-> None, active |-> None]>>),
        taxiways |-> None, gates |-> None, buildings |-> None,
        weather |-> None])]

\* a snapshot with two entries in each collection
FullSnapshot ==
    [kind |-> "json", origin |-> None,
     data |-> Some(
       [name |-> Some("Full"), code |-> Some("FULL"), location |-> Some(<<5, 5>>),
        runways |-> Some(<<[name |-> Some("36"), start_pos |-> Some(<<0, 4>>),
                            end_pos |-> Some(<<0, 0>>), width |-> Some(60),
                            active |-> Some(FALSE)],
                           [name |-> Some("09"), start_pos |-> Some(<<0, 0>>),
                            end_pos |-> Some(<<4, 0>>), width |-> None,
                            active |-> None]>>),
        taxiways |-> Some(<<[name |-> Some("B"),
                             points |-> Some(<<<<0, 0>>, <<0, 3>>>>),
                             width |-> Some(20)],
                            [name |-> Some("A"),
                             points |-> Some(<<<<0, 0>>, <<3, 0>>>>),
                             width |-> None]>>),
        gates |-> Some(<<[name |-> Some("G2"), position |-> Some(<<2, 2>>),
                          heading |-> Some(180), size |-> Some(3),
                          occupied |-> Some(TRUE)],
                         [name |-> Some("G1"), position |-> Some(<<1, 2>>),
                          heading |-> None, size |-> None,
                          occupied |-> Some(FALSE)]>>),
        buildings |-> Some(<<[name |-> Some("Tower"),
                              polygon |-> Some(<<<<0, 0>>, <<1, 0>>, <<1, 1>>>>),
                              height |-> Some(30), type |-> Some("tower")],
                             [name |-> Some("Hall"),
                              polygon |-> Some(<<<<2, 0>>, <<3, 0>>, <<3, 1>>>>),
                              height |-> None, type |-> None]>>),
        weather |-> None])]

ExternalFiles == {NoFile, Garbage, ForeignSnapshot, TruncatedSnapshot}

IoOutcomes == {"ok", "open_fails", "write_fails"}

SimulationNames == {"tenerife", "demo"}

----------------------------------------------------------------------------
(* The command queue: add_command, process_commands and direct setters *)

AddHeadingCmd == \E v \in Headings, t \in ExecTimes : add_command("heading", v, t)
AddSpeedCmd == \E v \in Speeds, t \in ExecTimes : add_command("speed", v, t)
AddStatusCmd == \E v \in QueuedStatuses, t \in ExecTimes : add_command("status", v, t)
AddAltitudeCmd == \E v \in Altitudes, t \in ExecTimes : add_command("altitude", v, t)
ProcessCommands == \E t \in Times : process_commands(t)
SetCourse == \E h \in Headings : set_course(h)
ChangeSpeed == \E s \in Speeds : change_speed(s)
ChangeStatus == \E s \in Statuses : change_status(s)
Move == \E dt \in DeltaTimes : move(dt)
AddImmediateStatusCmd == \E v \in Statuses : add_command("status", v, None)

InitIdle ==
    /\ AircraftInit
    /\ AirportInit(<<>>)
    /\ RunnerIdle
    /\ lastOp = <<"init">>

NextCommands ==
    \/ AddHeadingCmd
    \/ AddSpeedCmd
    \/ AddStatusCmd
    \/ AddAltitudeCmd
    \/ ProcessCommands
    \/ SetCourse

SpecCommands == InitIdle /\ [][NextCommands]_vars

(* Turning: headings set directly and by command, over every kind of argument *)

TurnCourse == \E h \in TurnHeadings : set_course(h)
AddTurnCmd == \E v \in TurnHeadings, t \in ExecTimes : add_command("heading", v, t)

NextCourse ==
    \/ TurnCourse
    \/ AddTurnCmd
    \/ ProcessCommands

SpecCourse == InitIdle /\ [][NextCourse]_vars

(* Throttle: speeds set directly and by command *)

Throttle == \E s \in ThrottleSpeeds : change_speed(s)
AddThrottleCmd == \E v \in ThrottleSpeeds, t \in ExecTimes : add_command("speed", v, t)

NextSpeed ==
    \/ Throttle
    \/ AddThrottleCmd
    \/ ProcessCommands

SpecSpeed == InitIdle /\ [][NextSpeed]_vars

NextFlight ==
    \/ Move
    \/ Tick
    \/ SetCourse
    \/ ChangeSpeed
    \/ ChangeStatus

SpecFlight == InitIdle /\ [][NextFlight]_vars

(* Crashing and reviving: status changes, direct and queued, with movement *)

NextCrash ==
    \/ Move
    \/ ChangeSpeed
    \/ ChangeStatus
    \/ AddImmediateStatusCmd
    \/ ProcessCommands

SpecCrash == InitIdle /\ [][NextCrash]_vars

(* Runway selection *)

AddRunway ==
    \E r \in RunwayInputs : add_runway(r[1], r[2], r[3], r[4], r[5], r[6])
SetWind ==
    \E w \in WindInputs :
        set_weather([NoWeatherArgs EXCEPT !.wind_direction = Some(w)])
GetActiveRunwaysCall ==
    \E w \in {None} \cup {Some(x) : x \in WindInputs} : get_active_runways(w)

NextRunways ==
    \/ AddRunway
    \/ SetWind
    \/ GetActiveRunwaysCall

SpecRunways == InitIdle /\ [][NextRunways]_vars

(* Weather *)

SetWeatherCall == \E a \in WeatherArgs : set_weather(a)

NextWeather == SetWeatherCall

SpecWeather == InitIdle /\ [][NextWeather]_vars

(* Saving and loading *)

AddSavedRunway ==
    \E r \in SavedRunwayInputs : add_runway(r[1], r[2], r[3], r[4], r[5], r[6])
AddGate == add_gate("G1", <<1, 2>>, 90, 2)
SaveToFile == \E io \in IoOutcomes : save_to_file(io)
LoadFromFile == load_from_file
ExternalWrite == \E f \in ExternalFiles : external_write(f)

NextFile ==
    \/ AddSavedRunway
    \/ AddGate
    \/ SaveToFile
    \/ LoadFromFile
    \/ ExternalWrite

InitFile ==
    /\ AircraftInit
    /\ \E g \in InitialGates : AirportInit(g)
    /\ RunnerIdle
    /\ lastOp = <<"init">>

SpecFile == InitFile /\ [][NextFile]_vars

(* Reloading: every add_* operation, saving, and loading snapshots *)

AddOneRunway == add_runway("09/27", <<0, 0>>, <<4, 0>>, 45, TRUE, FALSE)
AddTaxiway == add_taxiway("A", <<<<0, 0>>, <<2, 0>>>>, 15)
AddBuilding == add_building("Hangar", <<<<0, 0>>, <<1, 0>>, <<1, 1>>>>, 12, "hangar")
SaveOk == save_to_file("ok")
WriteSnapshot == \E f \in {ForeignSnapshot, FullSnapshot} : external_write(f)

NextReload ==
    \/ AddOneRunway
    \/ AddTaxiway
    \/ AddGate
    \/ AddBuilding
    \/ SaveOk
    \/ LoadFromFile
    \/ WriteSnapshot

SpecReload == InitFile /\ [][NextReload]_vars

(* The runner *)

InitRunner ==
    /\ AircraftInit
    /\ AirportInit(<<>>)
    /\ lastOp = <<"init">>
    /\ pc = "main"
    /\ available_simulations \in {<<>>, <<"tenerife">>, <<"demo", "tenerife">>}
    /\ unimportable \in SUBSET SimulationNames
    /\ entryless \in SUBSET SimulationNames
    /\ args \in [list : BOOLEAN,
                 simulation : {None, Some("tenerife"), Some("demo"), Some("ghost")}]
    /\ choice \in {None, Some(0), Some(1), Some(2), Some(3)}
    /\ selected_simulation = None
    /\ exit_code = None
    /\ printed = <<>>

RunEntryPoint == \E o \in {"returns", "ImportError", "Exception"} : RunEntry(o)

NextRunner ==
    \/ ParseArgs
    \/ ListOrSelect
    \/ Menu
    \/ Dispatch
    \/ Import
    \/ CheckEntry
    \/ RunEntryPoint

SpecRunner == InitRunner /\ [][NextRunner]_vars

----------------------------------------------------------------------------
(* Claims about the command queue *)

\* The pending commands a call process_commands(t) has to apply: not yet
\* completed, scheduled time unset or <= t.
ToFire(t) ==
    {i \in DOMAIN commands :
        /\ ~commands[i].completed
        /\ \/ commands[i].execution_time = None
           \/ commands[i].execution_time[1] <= t}

OfType(S, type) == {i \in S : commands[i].type = type}

Last(S) == CHOOSE i \in S : \A j \in S : j <= i

\* C1: a command is applied at most once. A completed command is never
\* applied or altered again by any later call, no command is ever applied
\* twice, and a process_commands(t) call that finds every command due at t
\* already completed leaves heading, speed, status and altitude as they are
\* (also when they were changed by other means since the command fired).
C1_AppliedAtMostOnce ==
    [][/\ \A i \in DOMAIN commands :
            commands[i].completed =>
                applied'[i] = applied[i] /\ commands'[i] = commands[i]
       /\ \A i \in DOMAIN commands' : applied'[i] <= 1
       /\ (lastOp'[1] = "process_commands" /\ ToFire(lastOp'[2]) = {}) =>
            <<heading, speed, status, altitude>>' = <<heading, speed, status, altitude>>
      ]_vars

\* C1 witness: a heading command has fired, the heading was then changed by
\* set_course, and a second process_commands at a time the command is due
\* applied nothing and left the other heading in place.
C1_Witness ==
    /\ lastOp[1] = "process_commands"
    /\ fired = <<>>
    /\ \E i \in DOMAIN commands :
          /\ commands[i].completed
          /\ applied[i] = 1
          /\ commands[i].type = "heading"
          /\ \/ commands[i].execution_time = None
             \/ commands[i].execution_time[1] <= lastOp[2]
          /\ heading # commands[i].value[1] % 360

\* C2: one call process_commands(t) applies exactly the pending commands
\* whose scheduled time is unset or <= t, in insertion order, and leaves the
\* others pending and untouched; each attribute ends with the value of the
\* last-inserted applied command of its type (a status command carrying an
\* invalid status is applied without effect).
C2_AppliesDueInInsertionOrder ==
    [][lastOp'[1] = "process_commands" =>
        LET t == lastOp'[2]
            S == ToFire(t)
            H == OfType(S, "heading")
            V == OfType(S, "speed")
            A == OfType(S, "altitude")
            T == {i \in OfType(S, "status") : commands[i].value \in valid_statuses}
        IN /\ Len(commands') = Len(commands)
           /\ \A i \in DOMAIN commands :
                 /\ commands'[i] = [commands[i] EXCEPT
                                      !.completed = (@ \/ i \in S)]
                 /\ applied'[i] = applied[i] + (IF i \in S THEN 1 ELSE 0)
           /\ Len(fired') = Cardinality(S)
           /\ {fired'[k] : k \in DOMAIN fired'} = S
           /\ \A k \in DOMAIN fired' : k > 1 => fired'[k - 1] < fired'[k]
           /\ heading' = IF H = {} THEN heading ELSE commands[Last(H)].value[1] % 360
           /\ speed' = IF V = {} THEN speed
                       ELSE IF commands[Last(V)].value < 0 THEN 0
                       ELSE commands[Last(V)].value
           /\ altitude' = IF A = {} THEN altitude ELSE commands[Last(A)].value
           /\ status' = IF T = {} THEN status ELSE commands[Last(T)].value
      ]_vars

\* C2 witness: one call applied two heading commands of different values,
\* the first inserted scheduled later than the second, and the heading is
\* that of the second; another state of the same run has a command left
\* pending because its time has not come.
C2_Witness ==
    /\ lastOp[1] = "process_commands"
    /\ Len(fired) = 2
    /\ commands[fired[1]].type = "heading"
    /\ commands[fired[2]].type = "heading"
    /\ commands[fired[1]].execution_time = Some(2)
    /\ commands[fired[2]].execution_time = Some(1)
    /\ commands[fired[1]].value[1] % 360 # commands[fired[2]].value[1] % 360
    /\ heading = commands[fired[2]].value[1] % 360

----------------------------------------------------------------------------
(* Claims about movement and the crashed status *)

\* C3: while the status is "crashed", a move call (any delta_time, heading
\* and speed) leaves the position unchanged and appends nothing to
\* flight_data.
C3_CrashedMoveIsNoOp ==
    [][(status = "crashed" /\ lastOp'[1] = "move") =>
          (position' = position /\ flight_data' = flight_data)]_vars

\* C3 witness: move was called on a crashed aircraft that has speed and whose
\* last trace sample is old enough for a new one to be due.
C3_Witness ==
    /\ status = "crashed"
    /\ lastOp[1] = "move"
    /\ speed > 0
    /\ Len(flight_data) > 0
    /\ flight_data[Len(flight_data)].time + 1 < ticks

\* C4 as stated: once crashed, no call takes the status out of "crashed" or
\* changes the position.
C4_CrashedIsTerminal ==
    [][status = "crashed" => (status' = "crashed" /\ position' = position)]_vars

\* The valid statuses handed to change_status by the step just taken:
\* directly, or by the status commands process_commands applied.
RevivingCmds ==
    {i \in DOMAIN commands :
        /\ \E k \in DOMAIN fired' : fired'[k] = i
        /\ commands[i].type = "status"
        /\ commands[i].value \in valid_statuses}

\* C4 amended: while the status is "crashed" no call changes the position,
\* and the status stays "crashed" under move, add_command, set_course,
\* change_speed and under any status that is not valid; it changes only when
\* change_status, called directly or by a due status command, is given a
\* valid status, and then becomes that status (the last one applied).
C4_CrashedUntilValidStatus ==
    [][status = "crashed" =>
          /\ position' = position
          /\ status' =
                IF lastOp'[1] = "change_status"
                THEN (IF lastOp'[2] \in valid_statuses THEN lastOp'[2] ELSE "crashed")
                ELSE IF lastOp'[1] = "process_commands" /\ RevivingCmds # {}
                THEN commands[Last(RevivingCmds)].value
                ELSE "crashed"
      ]_vars

\* C4 witness: a crashed aircraft away from its starting position was given
\* an invalid status and is still crashed.
C4_Witness ==
    /\ status = "crashed"
    /\ lastOp = <<"change_status", "bogus">>
    /\ position # <<0, 0>>

----------------------------------------------------------------------------
(* Claims about runway selection *)

\* the wind the last get_active_runways call worked with
LastWind == IF lastOp[2] = None THEN weather.wind_direction ELSE lastOp[2][1]

WithDifference(records, d) ==
    LET Has(r) == r.difference = d IN SelectSeq(records, Has)

\* C5: the records get_active_runways returns are in ascending order of
\* difference, and the records of equal difference are in the order of
\* their runways in the airport's runway list.
C5_SortedAndStable ==
    lastOp[1] = "get_active_runways" =>
        /\ \A k \in 1 .. Len(active_runways) - 1 :
              active_runways[k].difference <= active_runways[k + 1].difference
        /\ \A d \in {active_runways[k].difference : k \in DOMAIN active_runways} :
              WithDifference(active_runways, d)
                = WithDifference(Choices(runways, 1, LastWind), d)

\* C5 witness: the call returned two different records of equal difference,
\* and had to reorder the runways to sort them.
C5_Witness ==
    /\ lastOp[1] = "get_active_runways"
    /\ \E i, j \in DOMAIN active_runways :
          /\ i < j
          /\ active_runways[i].difference = active_runways[j].difference
          /\ active_runways[i].runway # active_runways[j].runway
    /\ active_runways # Choices(runways, 1, LastWind)

\* the shortest angular distance between two directions, in 0 .. 180
AngularDistance(a, b) ==
    LET d == (a - b) % 360 IN IF d <= 360 - d THEN d ELSE 360 - d

Count(seq, Test(_)) == Cardinality({i \in DOMAIN seq : Test(seq[i])})

\* C6: get_active_runways returns one record per active runway and none
\* for an inactive one; each record carries the orientation, "normal" (the
\* runway heading) or "reverse" (heading + 180 mod 360), whose angular
\* distance to the wind is the smaller, with that distance as difference;
\* without a wind argument the stored weather wind_direction is used.
C6_OneBestRecordPerActiveRunway ==
    lastOp[1] = "get_active_runways" =>
        /\ \A r \in {runways[i] : i \in DOMAIN runways}
                \cup {active_runways[k].runway : k \in DOMAIN active_runways} :
              LET IsR(x) == x = r
                  OfR(x) == x.runway = r
              IN Count(active_runways, OfR)
                   = IF r.active THEN Count(runways, IsR) ELSE 0
        /\ \A k \in DOMAIN active_runways :
              LET rec == active_runways[k]
                  normal == rec.runway.heading
                  reverse == (rec.runway.heading + 180) % 360
                  dn == AngularDistance(normal, LastWind)
                  dr == AngularDistance(reverse, LastWind)
              IN /\ rec.difference = Min2(dn, dr)
                 /\ \/ rec.direction = "normal" /\ rec.heading = normal /\ dn <= dr
                    \/ rec.direction = "reverse" /\ rec.heading = reverse /\ dr <= dn

\* C6 witness: called without a wind, with a stored wind other than the
\* default, on an airport with an inactive runway, the call returned a
\* "normal" and a "reverse" record.
C6_Witness ==
    /\ lastOp = <<"get_active_runways", None>>
    /\ weather.wind_direction # 0
    /\ \E i \in DOMAIN runways : ~runways[i].active
    /\ \E k \in DOMAIN active_runways : active_runways[k].direction = "normal"
    /\ \E k \in DOMAIN active_runways :
          /\ active_runways[k].direction = "reverse"
          /\ active_runways[k].difference > 0

----------------------------------------------------------------------------
(* Claims about the weather *)

WeatherFields ==
    {"visibility", "fog_density", "wind_direction", "wind_speed", "precipitation"}

\* C8: set_weather changes no weather field whose parameter the call does
\* not supply.
C8_UnsetParametersKeepFields ==
    [][lastOp'[1] = "set_weather" =>
          \A f \in WeatherFields :
              lastOp'[2][f] = None => weather'[f] = weather[f]]_vars

\* C8 witness: a call supplied visibility 0 and a wind direction and nothing
\* else, and fog density, wind speed and precipitation kept the values
\* earlier calls gave them.
C8_Witness ==
    /\ lastOp[1] = "set_weather"
    /\ lastOp[2].visibility = Some(0)
    /\ lastOp[2].wind_direction # None
    /\ lastOp[2].fog_density = None
    /\ lastOp[2].wind_speed = None
    /\ lastOp[2].precipitation = None
    /\ weather.visibility = 0
    /\ weather.fog_density > 0
    /\ weather.wind_speed > 0
    /\ weather.precipitation = Some("rain")

----------------------------------------------------------------------------
(* Claims about saving and loading *)

\* C7: load_from_file of the file save_to_file wrote reproduces the saved
\* airport: name, code, location, and the runways in order with their
\* start, end, width, active flag and their recomputed heading and length.
C7_RoundTrip ==
    (lastOp[1] = "load_from_file" /\ ret = "True" /\ disk.origin # None) =>
        LET saved == disk.origin[1] IN
        /\ name = saved.name
        /\ code = saved.code
        /\ location = saved.location
        /\ Len(runways) = Len(saved.runways)
        /\ \A i \in DOMAIN runways :
              /\ runways[i].name = saved.runways[i].name
              /\ runways[i].start_pos = saved.runways[i].start_pos
              /\ runways[i].end_pos = saved.runways[i].end_pos
              /\ runways[i].width = saved.runways[i].width
              /\ runways[i].active = saved.runways[i].active
              /\ runways[i].length = saved.runways[i].length
              /\ runways[i].heading = saved.runways[i].heading

\* C9: load_from_file and save_to_file never let an exception escape: they
\* return False when a step failed and True only when the whole operation
\* succeeded (the file holds the airport's snapshot; every entry of the
\* file was loaded).
C9_NoExceptionEscapes ==
    lastOp[1] \in {"save_to_file", "load_from_file"} =>
        /\ ret \in {"True", "False"}
        /\ (lastOp[1] = "save_to_file" /\ ret = "True") =>
              disk.kind = "json" /\ disk.data = Some(SaveData(Airport))
        /\ (lastOp[1] = "load_from_file" /\ ret = "True") =>
              /\ disk.kind = "json"
              /\ Len(runways) = Len(Get(disk.data[1].runways, <<>>))
              /\ Len(taxiways) = Len(Get(disk.data[1].taxiways, <<>>))
              /\ Len(gates) = Len(Get(disk.data[1].gates, <<>>))
              /\ Len(buildings) = Len(Get(disk.data[1].buildings, <<>>))

----------------------------------------------------------------------------
(* Claims about the runner *)

\* C10: when the selected simulation cannot be imported, or is imported but
\* has no run_simulation, the failure is reported and the process ends with
\* a non-zero exit status.
C10_DispatchFailuresExitNonZero ==
    (/\ pc = "exit"
     /\ selected_simulation # None
     /\ \/ selected_simulation[1] \in unimportable
        \/ selected_simulation[1] \in entryless) =>
        /\ \E i \in DOMAIN printed :
              printed[i] \in {"Blad: Nie mozna zaimportowac modulu symulacji",
                              "Blad: Modul nie zawiera funkcji run_simulation()"}
        /\ exit_code # Some(0)

----------------------------------------------------------------------------
(* Claims about the stored heading, speed, fog density and altitude *)

\* the heading commands the last process_commands call applied
FiredOfType(type) ==
    {fired[k] : k \in {n \in DOMAIN fired : commands[fired[n]].type = type}}

\* the stored heading is the normal form of the argument h: inside [0, 360)
\* and, for a whole number of degrees, a multiple of 360 away from it
NormalFormOf(h) ==
    /\ heading >= 0
    /\ heading < 360
    /\ h[2] = 0 => (heading - h[1]) % 360 = 0

\* C11: for every numeric heading h, set_course(h) stores a heading inside
\* [0, 360) that is congruent to h modulo 360, and so does a processed
\* "heading" command carrying h.
C11_HeadingNormalised ==
    /\ lastOp[1] = "set_course" => NormalFormOf(lastOp[2])
    /\ (lastOp[1] = "process_commands" /\ FiredOfType("heading") # {}) =>
           NormalFormOf(commands[Last(FiredOfType("heading"))].value)

\* C12: change_speed(s) stores max(0, s), that is 0 for s < 0 and s itself
\* for s >= 0, and so does a processed "speed" command; on an aircraft
\* created with a non-negative speed the speed is never negative, whatever
\* change_speed calls and "speed" commands have been made.
C12_SpeedNeverNegative ==
    /\ speed >= 0
    /\ lastOp[1] = "change_speed" =>
           speed = IF lastOp[2] < 0 THEN 0 ELSE lastOp[2]
    /\ (lastOp[1] = "process_commands" /\ FiredOfType("speed") # {}) =>
           LET s == commands[Last(FiredOfType("speed"))].value
           IN speed = IF s < 0 THEN 0 ELSE s

\* C12 witness: change_speed was called with a negative speed after a
\* "speed" command carrying a negative speed and one carrying a positive
\* speed had been processed, and the speed is 0.
C12_Witness ==
    /\ lastOp[1] = "change_speed"
    /\ lastOp[2] < 0
    /\ speed = 0
    /\ \E i, j \in DOMAIN commands :
          /\ commands[i].type = "speed" /\ commands[i].completed
          /\ commands[i].value < 0
          /\ commands[j].type = "speed" /\ commands[j].completed
          /\ commands[j].value > 0

\* C13: set_weather clamps a supplied fog_density into [0, 1]: a value above
\* 1 is stored as 1, a value below 0 as 0, a value inside [0, 1] as given;
\* after any sequence of set_weather calls the stored fog_density is inside
\* [0, 1].  (Fog densities are held in tenths: FogOne is 1.0.)
C13_FogDensityClamped ==
    /\ weather.fog_density >= 0
    /\ weather.fog_density <= FogOne
    /\ (lastOp[1] = "set_weather" /\ lastOp[2].fog_density # None) =>
           LET f == lastOp[2].fog_density[1]
           IN weather.fog_density = IF f > FogOne THEN FogOne
                                    ELSE IF f < 0 THEN 0
                                    ELSE f

\* C13 witness: set_weather was called with a fog density above 1 and the
\* stored fog density is 1.
C13_Witness ==
    /\ lastOp[1] = "set_weather"
    /\ lastOp[2].fog_density # None
    /\ lastOp[2].fog_density[1] > FogOne
    /\ weather.fog_density = FogOne

\* C14: the altitude is non-negative in every reachable state, whatever
\* add_command and process_commands calls were made, "altitude" commands
\* with any numeric value included.
C14_AltitudeNonNegative == altitude >= 0

----------------------------------------------------------------------------
(* Claims about reloading *)

\* the four collections hold the entries of the snapshot on disk, one for
\* one and in its order, as load_from_file hands them to add_runway,
\* add_taxiway, add_gate and add_building
HoldsTheSnapshot ==
    LET d == disk.data[1]
        R == Get(d.runways, <<>>)
        T == Get(d.taxiways, <<>>)
        G == Get(d.gates, <<>>)
        B == Get(d.buildings, <<>>)
    IN /\ Len(runways) = Len(R)
       /\ \A i \in DOMAIN R :
             /\ runways[i].name = R[i].name[1]
             /\ runways[i].start_pos = R[i].start_pos[1]
             /\ runways[i].end_pos = R[i].end_pos[1]
             /\ runways[i].width = Get(R[i].width, DefaultRunwayWidth)
             /\ runways[i].active = Get(R[i].active, TRUE)
       /\ Len(taxiways) = Len(T)
       /\ \A i \in DOMAIN T :
             /\ taxiways[i].name = T[i].name[1]
             /\ taxiways[i].points = T[i].points[1]
             /\ taxiways[i].width = Get(T[i].width, DefaultTaxiwayWidth)
       /\ Len(gates) = Len(G)
       /\ \A i \in DOMAIN G :
             /\ gates[i].name = G[i].name[1]
             /\ gates[i].position = G[i].position[1]
             /\ gates[i].heading = Get(G[i].heading, 0)
             /\ gates[i].size = Get(G[i].size, DefaultGateSize)
       /\ Len(buildings) = Len(B)
       /\ \A i \in DOMAIN B :
             /\ buildings[i].name = B[i].name[1]
             /\ buildings[i].polygon = B[i].polygon[1]
             /\ buildings[i].height = Get(B[i].height, DefaultBuildingHeight)
             /\ buildings[i].type = Get(B[i].type, "terminal")

\* C15: a successful load_from_file replaces runways, taxiways, gates and
\* buildings with those of the snapshot: whatever add_* calls or loads came
\* before, each collection then holds the snapshot's entries in the
\* snapshot's order and nothing else, and a second load of the same
\* snapshot leaves the four collections as the first left them.
C15_LoadReplacesCollections ==
    [][(lastOp'[1] = "load_from_file" /\ ret' = "True") =>
          /\ HoldsTheSnapshot'
          /\ (lastOp[1] = "load_from_file" /\ ret = "True") =>
                <<runways, taxiways, gates, buildings>>' =
                    <<runways, taxiways, gates, buildings>>
      ]_vars

\* C15 witness: a snapshot with two different entries in each collection was
\* loaded, and each collection holds those two entries in the snapshot's
\* order.
C15_Witness ==
    /\ lastOp[1] = "load_from_file"
    /\ ret = "True"
    /\ disk = FullSnapshot
    /\ Len(runways) = 2 /\ runways[1].name = "36" /\ runways[2].name = "09"
    /\ Len(taxiways) = 2 /\ taxiways[1].name = "B" /\ taxiways[2].name = "A"
    /\ Len(gates) = 2 /\ gates[1].name = "G2" /\ gates[2].name = "G1"
    /\ Len(buildings) = 2 /\ buildings[1].name = "Tower"

====
